---- MODULE Spec2Model ----
(***************************************************************************)
(* Bully leader election of PeerImage/Services (src/src/election.rs).      *)
(*                                                                         *)
(* Every address of Addrs hosts one ElectionManager together with its      *)
(* ElectionService.  A start_election invocation is a task of its node; a  *)
(* task moves at the await points of the code (connect, Election call,     *)
(* leader.write()).  The Coordinator announcements that declare_leader     *)
(* spawns are tasks of their own.  A peer is unreachable when a connect or *)
(* a call to it fails or times out; this is a nondeterministic choice of   *)
(* the network at each attempt.  Every invocation keeps a log of how its   *)
(* contacts ended, and whether it wrote the cell and how many              *)
(* announcements it dispatched; the code reads none of the three.          *)
(***************************************************************************)
EXTENDS Integers, Sequences, FiniteSets, Bags, TLC

\* Number of start_election invocations in one run, over all nodes.
MaxElections == 2

\* Number of calls that the RPC client outside the cluster makes in one run.
MaxExtCalls == 2

Addrs == {"a", "b", "c"}

\* struct Node { id, addr }
Node(i, a) == [id |-> i, addr |-> a]

\* impl From<&Node> for ProtoNode
ProtoNode(nd) == [id |-> nd.id, addr |-> nd.addr]

\* Option<T>: None is the empty sequence, Some(x) the one-element sequence.
None == << >>
Some(x) == << x >>

\* The clusters that ElectionManager::new is called with.  "full" is a
\* cluster with unique identities and complete peer lists.  In "stale" the
\* peer list of a names b and c with identities they do not have (b is 1,
\* c shares the identity 2 of a), b has no peer at all and c knows a only.
Configs ==
    { [ name      |-> "full",
        self_node |-> [x \in Addrs |->
                         CASE x = "a" -> Node(1, "a")
                           [] x = "b" -> Node(2, "b")
                           [] x = "c" -> Node(3, "c")],
        peers     |-> [x \in Addrs |->
                         CASE x = "a" -> << Node(2, "b"), Node(3, "c") >>
                           [] x = "b" -> << Node(1, "a"), Node(3, "c") >>
                           [] x = "c" -> << Node(1, "a"), Node(2, "b") >>] ],
      [ name      |-> "stale",
        self_node |-> [x \in Addrs |->
                         CASE x = "a" -> Node(2, "a")
                           [] x = "b" -> Node(1, "b")
                           [] x = "c" -> Node(2, "c")],
        peers     |-> [x \in Addrs |->
                         CASE x = "a" -> << Node(3, "b"), Node(4, "c") >>
                           [] x = "b" -> << >>
                           [] x = "c" -> << Node(2, "a") >>] ] }

VARIABLES
    self_node,   \* ElectionManager.self_node, fixed at construction
    peers,       \* ElectionManager.peers, fixed at construction
    leader,      \* ElectionManager.leader: the Option<Node> behind the RwLock
    lock,        \* the guards of that RwLock that are held, per node
    tasks,       \* the start_election invocations of every node
    net,         \* Election requests and responses in flight
    announces,   \* bag of the announcement tasks spawned by declare_leader
    ext_calls,   \* how many calls the outside RPC client has made
    ext_resp     \* the last call of the outside RPC client and its response

vars == << self_node, peers, leader, lock, tasks, net, announces, ext_resp, ext_calls >>

Slots == 1 .. MaxElections

\* A slot that holds no invocation yet.
FreeTask ==
    [pc |-> "free", idx |-> 0, someone_alive |-> FALSE,
     log |-> << >>, wrote |-> FALSE, announced |-> 0]

\* An invocation that has been called or spawned and has not run yet.
StartTask == [FreeTask EXCEPT !.pc = "start"]

\* ElectionManager::new: the leader cell starts out empty.
new(cfg) ==
    /\ self_node = cfg.self_node
    /\ peers = cfg.peers
    /\ leader = [n \in Addrs |-> None]
    /\ lock = [n \in Addrs |-> {}]

Init ==
    /\ \E cfg \in Configs : new(cfg)
    /\ tasks = [n \in Addrs |-> [t \in Slots |-> FreeTask]]
    /\ net = {}
    /\ announces = EmptyBag
    /\ ext_resp = None
    /\ ext_calls = 0

\* Mutant of higher: a peer of equal identity counts as higher.
higher_or_equal(n) == SelectSeq(peers[n], LAMBDA p : p.id >= self_node[n].id)

\* let higher = peers.iter().filter(|p| p.id > self_node.id)
higher(n) == SelectSeq(peers[n], LAMBDA p : p.id > self_node[n].id)

\* get_leader: a point-in-time read of the cell.
get_leader(n) == leader[n]

Used(tk) == {nt \in Addrs \X Slots : tk[nt[1]][nt[2]].pc # "free"}
HasFree(tk, n) == Cardinality(Used(tk)) < MaxElections
FirstFree(tk, n) == CHOOSE t \in Slots :
    /\ tk[n][t].pc = "free"
    /\ \A u \in Slots : tk[n][u].pc = "free" => t <= u

\* A new start_election future on node n (called from outside or spawned).
Spawn(tk, n) == [tk EXCEPT ![n][FirstFree(tk, n)] = StartTask]

\* The external trigger calls start_election on n.
Trigger(n) ==
    /\ HasFree(tasks, n)
    /\ tasks' = Spawn(tasks, n)
    /\ UNCHANGED << self_node, peers, lock, leader, net, announces, ext_resp, ext_calls >>

\* Mutant of AfterLoop: someone_alive is ignored.
AfterLoop_always_declares(task) == [task EXCEPT !.pc = "declare"]

\* Mutant of AfterLoop: the election returns without declaring.
AfterLoop_never_declares(task) == [task EXCEPT !.pc = "done"]

\* Mutant of AfterLoop: after an ok reply the election polls its higher
\* peers again instead of returning.
AfterLoop_repolls(task) ==
    IF task.someone_alive
    THEN [task EXCEPT !.pc = "connect", !.idx = 1, !.someone_alive = FALSE]
    ELSE [task EXCEPT !.pc = "declare"]

\* After the for loop: defer when someone_alive, declare_leader otherwise.
AfterLoop(task) ==
    IF task.someone_alive THEN [task EXCEPT !.pc = "done"]
    ELSE [task EXCEPT !.pc = "declare"]

\* Mutant of NextPeer: after a failed connect the same peer is tried once
\* more.
NextPeer_retries(task, n) ==
    IF task.pc = "connect" /\ Len(task.log) = task.idx
    THEN task
    ELSE IF task.idx < Len(higher(n))
    THEN [task EXCEPT !.pc = "connect", !.idx = task.idx + 1]
    ELSE AfterLoop(task)

\* `continue`, or the end of the loop body: the next higher peer, if any.
NextPeer(task, n) ==
    IF task.idx < Len(higher(n))
    THEN [task EXCEPT !.pc = "connect", !.idx = task.idx + 1]
    ELSE AfterLoop(task)

Logged(task, result) ==
    [task EXCEPT !.log = Append(task.log, [peer |-> task.idx, result |-> result])]

\* start_election up to its first await.
start_election(n, t) ==
    /\ tasks[n][t].pc = "start"
    /\ tasks' = [tasks EXCEPT ![n][t] =
                    IF higher(n) = << >>
                    THEN [@ EXCEPT !.pc = "declare"]
                    ELSE [@ EXCEPT !.pc = "connect", !.idx = 1]]
    /\ UNCHANGED << self_node, peers, lock, leader, net, announces, ext_resp, ext_calls >>

\* The Election request of invocation t of node n to its idx-th higher peer.
ElectionRequest(n, t) ==
    [type |-> "Election", to |-> higher(n)[tasks[n][t].idx].addr,
     from |-> Some(ProtoNode(self_node[n])), call |-> << n, t, tasks[n][t].idx >>]

ElectionResponse(call, ok) ==
    [type |-> "ElectionResponse", call |-> call, ok |-> ok]

\* BullyClient::connect succeeds within the timeout; the request goes out.
ConnectOk(n, t) ==
    /\ tasks[n][t].pc = "connect"
    /\ tasks' = [tasks EXCEPT ![n][t].pc = "call"]
    /\ net' = net \cup {ElectionRequest(n, t)}
    /\ UNCHANGED << self_node, peers, lock, leader, announces, ext_resp, ext_calls >>

\* The connect is refused or times out: `_ => continue`.
ConnectFail(n, t) ==
    /\ tasks[n][t].pc = "connect"
    /\ tasks' = [tasks EXCEPT ![n][t] = NextPeer(Logged(@, "unreachable"), n)]
    /\ UNCHANGED << self_node, peers, lock, leader, net, announces, ext_resp, ext_calls >>

\* Mutant of election_ok: an originator of equal identity gets ok.
election_ok_or_equal(from, p) == from.id <= self_node[p].id

\* Mutant of election_ok: the comparison is the other way round.
election_ok_inverted(from, p) == from.id > self_node[p].id

\* let ok = from.id < self.manager.self_node.id
election_ok(from, p) == from.id < self_node[p].id

\* Mutant of election_result: a missing originator is read as the default
\* Node, of identity 0.
election_result_default_from(p, from) ==
    IF from = None
    THEN [status |-> "ok", ok |-> election_ok(Node(0, ""), p),
          spawn |-> election_ok(Node(0, ""), p)]
    ELSE [status |-> "ok", ok |-> election_ok(from[1], p),
          spawn |-> election_ok(from[1], p)]

\* ElectionService::election on node p for a request with Option<Node> from.
election_result(p, from) ==
    IF from = None
    THEN [status |-> "invalid_argument", ok |-> FALSE, spawn |-> FALSE]
    ELSE [status |-> "ok", ok |-> election_ok(from[1], p),
          spawn |-> election_ok(from[1], p)]

\* ElectionService::election on node p for the request req of a peer: the
\* spawn of start_election when ok, and the reply.
election_serve(p, req) ==
    /\ req \in net
    /\ req.type = "Election"
    /\ req.to = p
    /\ LET res == election_result(p, req.from) IN
        /\ tasks' = IF res.spawn THEN Spawn(tasks, p) ELSE tasks
        /\ net' = (net \ {req}) \cup
                    (IF res.status = "ok"
                     THEN {ElectionResponse(req.call, res.ok)} ELSE {})
    /\ UNCHANGED << self_node, peers, lock, leader, announces, ext_resp, ext_calls >>

\* Node p serves an Election request of a peer's start_election, as long as
\* the run has room for the election it spawns.
election(p, req) ==
    /\ req \in net
    /\ req.type = "Election"
    /\ election_result(p, req.from).spawn => HasFree(tasks, p)
    /\ election_serve(p, req)

\* Mutant of OnResponse: no break after ok.
OnResponse_no_break(task, n, ok) ==
    IF ok
    THEN NextPeer([Logged(task, "ok_true") EXCEPT !.someone_alive = TRUE], n)
    ELSE NextPeer(Logged(task, "ok_false"), n)

\* Ok(Ok(resp)): ok sets someone_alive and breaks out of the loop, a
\* response without ok falls through to the next higher peer.
OnResponse(task, n, ok) ==
    IF ok
    THEN AfterLoop([Logged(task, "ok_true") EXCEPT !.someone_alive = TRUE])
    ELSE NextPeer(Logged(task, "ok_false"), n)

\* The response arrives within the timeout.
RecvResponse(n, t) ==
    /\ tasks[n][t].pc = "call"
    /\ \E resp \in net :
        /\ resp.type = "ElectionResponse"
        /\ resp.call = << n, t, tasks[n][t].idx >>
        /\ net' = net \ {resp}
        /\ tasks' = [tasks EXCEPT ![n][t] = OnResponse(@, n, resp.ok)]
    /\ UNCHANGED << self_node, peers, lock, leader, announces, ext_resp, ext_calls >>

\* Mutant of CallFail: the call has no timeout around it, it ends when the
\* peer has answered.
CallFail_without_timeout(n, t) ==
    /\ tasks[n][t].pc = "call"
    /\ \E resp \in net :
        resp.type = "ElectionResponse" /\ resp.call = << n, t, tasks[n][t].idx >>
    /\ net' = {m \in net : m.call # << n, t, tasks[n][t].idx >>}
    /\ tasks' = [tasks EXCEPT ![n][t] = NextPeer(Logged(@, "unreachable"), n)]
    /\ UNCHANGED << self_node, peers, lock, leader, announces, ext_resp, ext_calls >>

\* The call fails or times out: `_ => continue`.  Dropping the call future
\* cancels the request, and a response that comes later is discarded.  (A
\* peer that serves the request and whose response is lost is the election
\* step followed by this one.)
CallFail(n, t) ==
    /\ tasks[n][t].pc = "call"
    /\ net' = {m \in net : m.call # << n, t, tasks[n][t].idx >>}
    /\ tasks' = [tasks EXCEPT ![n][t] = NextPeer(Logged(@, "unreachable"), n)]
    /\ UNCHANGED << self_node, peers, lock, leader, announces, ext_resp, ext_calls >>

\* Mutant of leader_node: the first peer is taken for the node itself.
leader_node_first_peer(n) == IF peers[n] # << >> THEN peers[n][1] ELSE self_node[n]

\* let leader_node = self.self_node.clone()
leader_node(n) == self_node[n]

\* declare_leader: *self.leader.write().await = Some(leader_node.clone())
declare_leader_write(n, t) ==
    /\ tasks[n][t].pc = "declare"
    /\ leader' = [leader EXCEPT ![n] = Some(leader_node(n))]
    /\ tasks' = [tasks EXCEPT ![n][t].pc = "announce", ![n][t].wrote = TRUE]
    /\ UNCHANGED << self_node, peers, lock, net, announces, ext_resp, ext_calls >>

\* Mutant of announce_targets: only the peers of lower identity are told.
announce_targets_lower(n) == SelectSeq(peers[n], LAMBDA p : p.id < self_node[n].id)

\* Mutant of announce_targets: only the peers of greater identity are told.
announce_targets_higher(n) == higher(n)

\* The peers that declare_leader announces to: for peer in self.peers.iter()
announce_targets(n) == peers[n]

\* One spawned task: it connects to `to` and calls announce_coordinator
\* there with Coordinator { leader: Some(leader_node.into()) }.
Announce(n, to) == [to |-> to, leader |-> Some(ProtoNode(leader_node(n)))]

RECURSIVE SpawnAnnounces(_, _, _)
SpawnAnnounces(bag, n, ps) ==
    IF ps = << >> THEN bag
    ELSE SpawnAnnounces(bag (+) SetToBag({Announce(n, Head(ps).addr)}),
                        n, Tail(ps))

\* declare_leader: the loop of tokio::spawn, which has no await in it.
declare_leader_announce(n, t) ==
    /\ tasks[n][t].pc = "announce"
    /\ announces' = SpawnAnnounces(announces, n, announce_targets(n))
    /\ tasks' = [tasks EXCEPT ![n][t].pc = "done",
                              ![n][t].announced = Len(announce_targets(n))]
    /\ UNCHANGED << self_node, peers, lock, leader, net, ext_resp, ext_calls >>

\* Mutant of announce_coordinator_cell: a leader of lower identity than the
\* one held is not taken over.
announce_coordinator_cell_highest(cell, c) ==
    IF c # None /\ (cell = None \/ c[1].id > cell[1].id)
    THEN Some(Node(c[1].id, c[1].addr)) ELSE cell

\* Mutant of announce_coordinator_cell: the Option of the message is stored
\* as it comes, an absent leader empties the cell.
announce_coordinator_cell_stores_option(cell, c) ==
    IF c # None THEN Some(Node(c[1].id, c[1].addr)) ELSE None

\* The cell after announce_coordinator got a Coordinator with Option<Node> c:
\* if let Some(leader) = ... { *leader.write().await = Some(Node { .. }) }
announce_coordinator_cell(cell, c) ==
    IF c # None THEN Some(Node(c[1].id, c[1].addr)) ELSE cell

\* Connect or call of a spawned announcement fails: the error is ignored.
AnnounceFail(an) ==
    /\ BagIn(an, announces)
    /\ announces' = announces (-) SetToBag({an})
    /\ UNCHANGED << self_node, peers, lock, leader, tasks, net, ext_resp, ext_calls >>

\* Node an.to serves the Coordinator call of a spawned announcement.
announce_coordinator(an) ==
    /\ BagIn(an, announces)
    /\ leader' = [leader EXCEPT ![an.to] = announce_coordinator_cell(@, an.leader)]
    /\ announces' = announces (-) SetToBag({an})
    /\ UNCHANGED << self_node, peers, lock, tasks, net, ext_resp, ext_calls >>

\* Nodes that an RPC client outside the cluster puts into its requests.
ExtNodes == {Node(0, "x"), Node(2, "x")}
ExtOptions == {None} \cup {Some(x) : x \in ExtNodes}

\* The outside client holds one connection: all its calls go to one node.
ExtConnected(p) == ext_resp # None => ext_resp[1].to = p

\* The outside client calls Election on node p with Option<Node> from.
ext_election(p, from) ==
    /\ ext_calls < MaxExtCalls
    /\ ExtConnected(p)
    /\ ext_calls' = ext_calls + 1
    /\ LET res == election_result(p, from) IN
        /\ res.spawn => HasFree(tasks, p)
        /\ tasks' = IF res.spawn THEN Spawn(tasks, p) ELSE tasks
        /\ ext_resp' = Some([rpc |-> "Election", to |-> p, arg |-> from,
                             status |-> res.status, value |-> res.ok,
                             before |-> leader[p]])
    /\ UNCHANGED << self_node, peers, lock, leader, net, announces >>

\* The outside client calls AnnounceCoordinator on node p with Option<Node> c.
ext_announce_coordinator(p, c) ==
    /\ ext_calls < MaxExtCalls
    /\ ExtConnected(p)
    /\ ext_calls' = ext_calls + 1
    /\ leader' = [leader EXCEPT ![p] = announce_coordinator_cell(@, c)]
    /\ ext_resp' = Some([rpc |-> "AnnounceCoordinator", to |-> p, arg |-> c,
                         status |-> "ok", value |-> TRUE,
                         before |-> leader[p]])
    /\ UNCHANGED << self_node, peers, lock, tasks, net, announces >>

Step(n, t) ==
    \/ start_election(n, t)
    \/ ConnectOk(n, t)
    \/ ConnectFail(n, t)
    \/ RecvResponse(n, t)
    \/ CallFail(n, t)
    \/ declare_leader_write(n, t)
    \/ declare_leader_announce(n, t)

Cluster ==
    \/ \E n \in Addrs, t \in Slots : Step(n, t)
    \/ \E p \in Addrs, req \in net : election(p, req)
    \/ \E an \in BagToSet(announces) : AnnounceFail(an)
    \/ \E an \in BagToSet(announces) : announce_coordinator(an)

Next ==
    \/ \E n \in Addrs : Trigger(n)
    \/ Cluster

Spec == Init /\ [][Next]_vars

\* Every start_election future is polled until it completes: a spawned one
\* by the runtime, a called one by its caller, and the timers of its
\* timeouts fire.  Nothing obliges a peer to accept, to serve or to answer.
Fairness == \A n \in Addrs, t \in Slots : WF_vars(Step(n, t))

SpecFair == Spec /\ Fairness

\* The cluster together with an RPC client outside of it; here elections
\* start only in reaction to Election requests.
NextRpc ==
    \/ Cluster
    \/ \E p \in Addrs, from \in ExtOptions : ext_election(p, from)
    \/ \E p \in Addrs, c \in ExtOptions : ext_announce_coordinator(p, c)

SpecRpc == Init /\ [][NextRpc]_vars

SpecRpcFair == SpecRpc /\ Fairness

\* A fault-free cluster: the identities are unique, every node has every
\* other node in its peer list, and every connect and every call succeeds
\* within its timeout.  start_election is called from outside as long as the
\* run counts fewer than MaxElections invocations; an election handler
\* always serves (at most one election per trigger is spawned on a node).
CompleteCluster ==
    /\ \A n, m \in Addrs : n # m => self_node[n].id # self_node[m].id
    /\ \A n \in Addrs :
        /\ Len(peers[n]) = Cardinality(Addrs) - 1
        /\ {peers[n][i] : i \in 1 .. Len(peers[n])} = {self_node[m] : m \in Addrs \ {n}}

InitComplete == Init /\ CompleteCluster

StepFaultFree(n, t) ==
    \/ start_election(n, t)
    \/ ConnectOk(n, t)
    \/ RecvResponse(n, t)
    \/ declare_leader_write(n, t)
    \/ declare_leader_announce(n, t)

NextFaultFree ==
    \/ \E n \in Addrs : Trigger(n)
    \/ \E n \in Addrs, t \in Slots : StepFaultFree(n, t)
    \/ \E p \in Addrs, req \in net : election_serve(p, req)
    \/ \E an \in BagToSet(announces) : announce_coordinator(an)

SpecFaultFree == InitComplete /\ [][NextFaultFree]_vars

\* Every spawned task is eventually scheduled: the start_election futures,
\* the handlers of the requests that arrived, the announcement tasks.
FairnessFaultFree ==
    /\ \A n \in Addrs, t \in Slots : WF_vars(StepFaultFree(n, t))
    /\ \A p \in Addrs : WF_vars(\E req \in net : election_serve(p, req))
    /\ WF_vars(\E an \in BagToSet(announces) : announce_coordinator(an))

SpecFaultFreeFair == SpecFaultFree /\ FairnessFaultFree

(***************************************************************************)
(* The accesses to the leader cell with the RwLock spelled out.  In the    *)
(* specifications above an access is one step, the guard being taken and   *)
(* dropped inside the one statement that awaits nothing once it has the    *)
(* guard; here taking the guard and using it are two steps, so that the    *)
(* states in which a guard is held can be looked at.                       *)
(***************************************************************************)

\* A guard of the RwLock of a node, held in mode "write" or "read".
Guard(mode, by) == [mode |-> mode, by |-> by]

\* RwLock: write().await completes when no guard is held, read().await when
\* no write guard is.
can_write(held) == held = {}
can_read(held) == \A g \in held : g.mode = "read"

\* Mutant of drop_guard: the guard is bound to a variable and outlives the
\* statement.
drop_guard_late(held, g) == held

\* The guard is a temporary of the statement that takes it and is dropped at
\* the end of that statement.
drop_guard(held, g) == held \ {g}

\* declare_leader: self.leader.write().await
declare_leader_lock(n, t) ==
    /\ tasks[n][t].pc = "declare"
    /\ can_write(lock[n])
    /\ lock' = [lock EXCEPT ![n] = @ \cup {Guard("write", << "declare_leader", t >>)}]
    /\ tasks' = [tasks EXCEPT ![n][t].pc = "store"]
    /\ UNCHANGED << self_node, peers, leader, net, announces, ext_resp, ext_calls >>

\* declare_leader: *guard = Some(leader_node.clone()), and the guard dropped.
declare_leader_store(n, t) ==
    /\ tasks[n][t].pc = "store"
    /\ leader' = [leader EXCEPT ![n] = Some(leader_node(n))]
    /\ lock' = [lock EXCEPT ![n] = drop_guard(@, Guard("write", << "declare_leader", t >>))]
    /\ tasks' = [tasks EXCEPT ![n][t].pc = "announce", ![n][t].wrote = TRUE]
    /\ UNCHANGED << self_node, peers, net, announces, ext_resp, ext_calls >>

\* announce_coordinator on node an.to, for an announcement with a leader:
\* self.manager.leader.write().await
announce_coordinator_lock(an) ==
    /\ BagIn(an, announces)
    /\ an.leader # None
    /\ can_write(lock[an.to])
    /\ lock' = [lock EXCEPT ![an.to] =
                    @ \cup {Guard("write", << "announce_coordinator", an.leader >>)}]
    /\ announces' = announces (-) SetToBag({an})
    /\ UNCHANGED << self_node, peers, leader, tasks, net, ext_resp, ext_calls >>

\* announce_coordinator on node p: *guard = Some(Node { .. }), the guard
\* dropped, and the reply.
announce_coordinator_store(p) ==
    /\ \E g \in lock[p] :
        /\ g.by[1] = "announce_coordinator"
        /\ leader' = [leader EXCEPT ![p] = announce_coordinator_cell(@, g.by[2])]
        /\ lock' = [lock EXCEPT ![p] = drop_guard(@, g)]
    /\ UNCHANGED << self_node, peers, tasks, net, announces, ext_resp, ext_calls >>

\* The guard of the get_leader call of the application; it makes one call
\* at a time, on any node.
ReadGuard == Guard("read", << "get_leader" >>)

\* get_leader: self.leader.read().await
get_leader_lock(p) ==
    /\ \A q \in Addrs : ReadGuard \notin lock[q]
    /\ can_read(lock[p])
    /\ lock' = [lock EXCEPT ![p] = @ \cup {ReadGuard}]
    /\ UNCHANGED << self_node, peers, leader, tasks, net, announces, ext_resp, ext_calls >>

\* get_leader: .clone() of what the guard gives, and the guard dropped.
get_leader_read(p) ==
    /\ ReadGuard \in lock[p]
    /\ lock' = [lock EXCEPT ![p] = drop_guard(@, ReadGuard)]
    /\ UNCHANGED << self_node, peers, leader, tasks, net, announces, ext_resp, ext_calls >>

StepLock(n, t) ==
    \/ start_election(n, t)
    \/ ConnectOk(n, t)
    \/ ConnectFail(n, t)
    \/ RecvResponse(n, t)
    \/ CallFail(n, t)
    \/ declare_leader_lock(n, t)
    \/ declare_leader_store(n, t)
    \/ declare_leader_announce(n, t)

NextLock ==
    \/ \E n \in Addrs : Trigger(n)
    \/ \E n \in Addrs, t \in Slots : StepLock(n, t)
    \/ \E p \in Addrs, req \in net : election(p, req)
    \/ \E an \in BagToSet(announces) : AnnounceFail(an)
    \/ \E an \in BagToSet(announces) : announce_coordinator_lock(an)
    \/ \E p \in Addrs : announce_coordinator_store(p)
    \/ \E p \in Addrs : get_leader_lock(p)
    \/ \E p \in Addrs : get_leader_read(p)

\* The cluster of unique identities and complete peer lists, where every
\* node has writers of both kinds, with all the failures of Spec.
SpecLock == InitComplete /\ [][NextLock]_vars

(***************************************************************************)
(* What the claims speak of, stated on the configuration and on the logs   *)
(* of the invocations.                                                     *)
(***************************************************************************)

\* The positions of the peer list of n that hold a peer of greater identity.
HigherPositions(n) ==
    {i \in 1 .. Len(peers[n]) : peers[n][i].id > self_node[n].id}

\* Invocation t of n has exhausted its higher peers, all of them unreachable.
AllUnreachable(n, t) ==
    /\ HigherPositions(n) # {}
    /\ Len(tasks[n][t].log) = Cardinality(HigherPositions(n))
    /\ \A i \in 1 .. Len(tasks[n][t].log) : tasks[n][t].log[i].result = "unreachable"

\* A higher peer has replied ok = true to invocation t of n.
RepliedOk(n, t) ==
    \E i \in 1 .. Len(tasks[n][t].log) : tasks[n][t].log[i].result = "ok_true"

\* This step is the write that declare_leader makes in invocation t of n.
DeclareWrites(n, t) == ~ tasks[n][t].wrote /\ tasks'[n][t].wrote

\* Some announce_coordinator call is served on node n in this step.
AnnouncementServed(n) ==
    \/ \E an \in BagToSet(announces) : an.to = n /\ announce_coordinator(an)
    \/ \E c \in ExtOptions : ext_announce_coordinator(n, c)

\* C1: when every peer of greater identity was unreachable, start_election
\* has declared the node leader by the time it returns: the invocation wrote
\* the node's own Node into the leader cell, and the cell keeps it until an
\* announce_coordinator call is served on the node.
C1_UnreachableDeclares ==
    [][\A n \in Addrs :
        /\ \A t \in Slots :
            /\ (AllUnreachable(n, t) /\ tasks[n][t].pc = "done")' => tasks'[n][t].wrote
            /\ DeclareWrites(n, t) => get_leader(n)' = Some(self_node[n])
        /\ (get_leader(n) = Some(self_node[n]) /\ get_leader(n)' # get_leader(n))
              => AnnouncementServed(n)]_vars

C1_Witness ==
    \E n \in Addrs, t \in Slots :
        /\ AllUnreachable(n, t)
        /\ tasks[n][t].pc = "done"
        /\ get_leader(n) = Some(self_node[n])

\* No announcement was ever dispatched towards node n by another node.
NoAnnouncementFor(n) ==
    \A m \in Addrs \ {n}, t \in Slots : tasks[m][t].announced = 0

\* C2: an invocation to which a higher peer replied ok = true has returned
\* without writing the leader cell and without dispatching an announcement,
\* and no step of it changes the cell or the announcements; a node whose
\* invocations all deferred, and that nobody announced to, has an empty cell.
C2_OkReplyDefers ==
    [][\A n \in Addrs :
        /\ \A t \in Slots :
            RepliedOk(n, t)' =>
                /\ tasks'[n][t].pc = "done"
                /\ ~ tasks'[n][t].wrote
                /\ tasks'[n][t].announced = 0
                /\ Step(n, t) => UNCHANGED << leader, announces >>
        /\ ( /\ \A t \in Slots : tasks[n][t].pc # "free" => RepliedOk(n, t)
             /\ NoAnnouncementFor(n) )' => get_leader(n)' = None]_vars

C2_Witness ==
    \E n \in Addrs, t \in Slots :
        /\ RepliedOk(n, t)
        /\ tasks[n][t].pc = "done"
        /\ get_leader(n) = None

\* Node n has no peer of strictly greater identity.
NoHigherPeer(n) ==
    \A i \in 1 .. Len(peers[n]) : peers[n][i].id <= self_node[n].id

\* Election requests in flight that come from node n.
RequestsOf(n) == {m \in net : m.type = "Election" /\ m.call[1] = n}

\* C3: a node without a peer of greater identity never connects to a peer
\* for an Election and never sends an Election request; its start_election
\* writes the node's own Node into the leader cell before it returns; with
\* an empty peer list it dispatches no Coordinator announcement either.
C3_NoHigherDeclares ==
    [][\A n \in Addrs : NoHigherPeer(n) =>
        /\ RequestsOf(n)' = {}
        /\ \A t \in Slots :
            /\ tasks'[n][t].pc \notin {"connect", "call"}
            /\ tasks'[n][t].log = << >>
            /\ tasks'[n][t].pc = "done" => tasks'[n][t].wrote
            /\ DeclareWrites(n, t) => get_leader(n)' = Some(self_node[n])
            /\ peers[n] = << >> =>
                /\ tasks'[n][t].announced = 0
                /\ Step(n, t) => UNCHANGED << net, announces >>]_vars

C3_Witness ==
    /\ \E n \in Addrs, t \in Slots :
        /\ peers[n] = << >>
        /\ tasks[n][t].pc = "done"
        /\ get_leader(n) = Some(self_node[n])
    /\ \E n \in Addrs, t \in Slots :
        /\ peers[n] # << >>
        /\ NoHigherPeer(n)
        /\ tasks[n][t].pc = "done"
        /\ tasks[n][t].wrote

\* This step starts exactly k new start_election invocations, all of them on
\* node p, and touches no other invocation.
StartsElections(p, k) ==
    /\ Cardinality({t \in Slots : tasks[p][t].pc = "free" /\ tasks'[p][t].pc = "start"}) = k
    /\ \A n \in Addrs, t \in Slots :
        tasks'[n][t] # tasks[n][t] =>
            n = p /\ tasks[n][t].pc = "free" /\ tasks'[n][t].pc = "start"

\* What election on node p owes an originator f: the reply and the number
\* of elections it triggers.
OwedReply(p, f) == f.id < self_node[p].id
OwedElections(p, f) == IF f.id < self_node[p].id THEN 1 ELSE 0

\* C4: the election handler answers a request that names its originator
\* with ok = (originator identity < own identity), and it starts one
\* start_election on its own node when ok, none otherwise; this holds for
\* requests of outside clients and for requests of a peer's start_election.
C4_ElectionHandler ==
    [][\A p \in Addrs :
        /\ \A f \in ExtNodes :
            ext_election(p, Some(f)) =>
                /\ ext_resp'[1].status = "ok"
                /\ ext_resp'[1].value = OwedReply(p, f)
                /\ StartsElections(p, OwedElections(p, f))
        /\ \A req \in net :
            (election(p, req) /\ req.from # None) =>
                /\ \E resp \in net' \ net :
                    /\ resp.type = "ElectionResponse"
                    /\ resp.call = req.call
                    /\ resp.ok = OwedReply(p, req.from[1])
                /\ StartsElections(p, OwedElections(p, req.from[1]))]_vars

C4_Witness ==
    /\ ext_resp # None
    /\ ext_resp[1].rpc = "Election"
    /\ ext_resp[1].arg # None
    /\ ext_resp[1].arg[1].id >= self_node[ext_resp[1].to].id
    /\ ext_resp[1].value = FALSE
    /\ \E resp \in net, t \in Slots :
        /\ resp.type = "ElectionResponse"
        /\ resp.ok
        /\ tasks[higher(resp.call[1])[resp.call[3]].addr][t].pc = "start"

\* C5: an Election request without originator is answered with an
\* invalid-argument error and changes nothing on the node: not the leader
\* cell, not the invocations, not the messages, not the announcements.
C5_MissingFromRejected ==
    [][\A p \in Addrs :
        ext_election(p, None) =>
            /\ ext_resp'[1].status = "invalid_argument"
            /\ UNCHANGED << self_node, peers, lock, leader, tasks, net, announces >>]_vars

C5_Witness ==
    /\ ext_resp # None
    /\ ext_resp[1].rpc = "Election"
    /\ ext_resp[1].arg = None
    /\ ext_resp[1].status = "invalid_argument"

\* C6: announce_coordinator with a Node L2 leaves the cell equal to L2
\* whatever the cell held before (empty, a Node announced earlier, a Node of
\* greater identity) and whatever the identity of the receiving node, and
\* it replies alive.
C6_LastWriteWins ==
    [][\A p \in Addrs :
        /\ \A L2 \in ExtNodes :
            ext_announce_coordinator(p, Some(L2)) =>
                /\ get_leader(p)' = Some(L2)
                /\ ext_resp'[1].status = "ok"
                /\ ext_resp'[1].value = TRUE
        /\ \A an \in BagToSet(announces) :
            (an.to = p /\ announce_coordinator(an)) => get_leader(p)' = an.leader]_vars

\* L2 was announced to a node that held the announced L of greater identity,
\* L2 being of lower identity than the node as well, and the node holds L2.
C6_Witness ==
    /\ ext_resp # None
    /\ ext_resp[1].rpc = "AnnounceCoordinator"
    /\ ext_resp[1].arg # None
    /\ ext_resp[1].before # None
    /\ ext_resp[1].before[1] \in ExtNodes
    /\ ext_resp[1].arg[1].id < ext_resp[1].before[1].id
    /\ ext_resp[1].arg[1].id < self_node[ext_resp[1].to].id
    /\ get_leader(ext_resp[1].to) = ext_resp[1].arg

\* The Coordinator call that node n owes the peer at address a.
OwnAnnouncement(n, a) == [to |-> a, leader |-> Some(self_node[n])]

\* How many entries of the peer list of n have the address a.
PeerEntries(n, a) ==
    Cardinality({i \in 1 .. Len(peers[n]) : peers[n][i].addr = a})

\* This step is the announcement fan-out of invocation t of n.
DeclareAnnounces(n, t) == tasks[n][t].pc = "announce" /\ tasks'[n][t].pc = "done"

\* C7: declare_leader writes the node's own Node into the cell before it
\* dispatches; the dispatch adds one announcement attempt carrying the
\* node's own Node for every entry of the peer list, of lower or greater
\* identity, and nothing else, and the invocation returns in that very step,
\* whatever becomes of the attempts; an attempt that fails, and one that
\* stays pending, leave every other attempt in place and free to be served.
C7_AnnounceToEveryPeer ==
    [][/\ \A n \in Addrs, t \in Slots :
            /\ DeclareWrites(n, t) =>
                /\ get_leader(n)' = Some(self_node[n])
                /\ UNCHANGED announces
                /\ tasks'[n][t].pc = "announce"
            /\ DeclareAnnounces(n, t) =>
                /\ tasks[n][t].wrote
                /\ tasks'[n][t].announced = Len(peers[n])
                /\ \A an \in BagToSet(announces) \cup BagToSet(announces') :
                    CopiesIn(an, announces') = CopiesIn(an, announces)
                        + (IF an = OwnAnnouncement(n, an.to) THEN PeerEntries(n, an.to) ELSE 0)
                /\ \A a \in Addrs :
                    PeerEntries(n, a) > 0 => BagIn(OwnAnnouncement(n, a), announces')
       /\ \A an \in BagToSet(announces) :
            /\ AnnounceFail(an) =>
                /\ CopiesIn(an, announces') = CopiesIn(an, announces) - 1
                /\ \A other \in BagToSet(announces) \ {an} :
                    CopiesIn(other, announces') = CopiesIn(other, announces)
                /\ UNCHANGED << leader, tasks >>
            /\ ENABLED announce_coordinator(an)]_vars

\* A node between a lower and a higher peer has declared itself; the attempt
\* to the lower peer is gone and the one to the higher peer is still there.
C7_Witness ==
    \E n \in Addrs, t \in Slots : \E i, j \in 1 .. Len(peers[n]) :
        /\ tasks[n][t].pc = "done"
        /\ tasks[n][t].announced = Len(peers[n])
        /\ peers[n][i].id < self_node[n].id
        /\ peers[n][j].id > self_node[n].id
        /\ ~ BagIn(OwnAnnouncement(n, peers[n][i].addr), announces)
        /\ BagIn(OwnAnnouncement(n, peers[n][j].addr), announces)
        /\ get_leader(peers[n][i].addr) = None

\* C9: once a higher peer has replied ok = true to an invocation, that reply
\* is the last contact of the invocation: the invocation has returned, no
\* connection attempt and no Election request of it is outstanding, and no
\* step of it sends a request.
C9_ShortCircuit ==
    [][\A n \in Addrs, t \in Slots :
        \A i \in 1 .. Len(tasks'[n][t].log) :
            tasks'[n][t].log[i].result = "ok_true" =>
                /\ i = Len(tasks'[n][t].log)
                /\ tasks'[n][t].pc = "done"
                /\ \A m \in net' : ~ (m.call[1] = n /\ m.call[2] = t)
                /\ Step(n, t) => net' \subseteq net]_vars

\* The first of two higher peers replied ok = true; the second was not contacted.
C9_Witness ==
    \E n \in Addrs, t \in Slots :
        /\ Cardinality(HigherPositions(n)) >= 2
        /\ tasks[n][t].pc = "done"
        /\ Len(tasks[n][t].log) = 1
        /\ tasks[n][t].log[1].peer = 1
        /\ tasks[n][t].log[1].result = "ok_true"

\* C10: every write of declare_leader puts the node's own Node, which never
\* changes, into the cell; so whenever invocations of a node have written,
\* overlapping or not, and nobody announced to the node, the cell holds the
\* node's own Node.
C10_OverlappingElections ==
    [][\A n \in Addrs :
        /\ self_node'[n] = self_node[n]
        /\ \A t \in Slots : DeclareWrites(n, t) => get_leader(n)' = Some(self_node[n])
        /\ ((\E t \in Slots : tasks[n][t].wrote) /\ NoAnnouncementFor(n))'
                => get_leader(n)' = Some(self_node[n])]_vars

\* Two invocations of one node, both with unreachable higher peers, are past
\* the write of declare_leader at the same time.
C10_Witness ==
    \E n \in Addrs, t, u \in Slots :
        /\ t # u
        /\ AllUnreachable(n, t) /\ AllUnreachable(n, u)
        /\ tasks[n][t].pc = "announce" /\ tasks[n][u].pc = "announce"
        /\ get_leader(n) = Some(self_node[n])

\* C8: every start_election invocation returns, whatever the peers do: refuse
\* or never accept the connection, never serve or never answer the request,
\* answer it with an error.  Returning is all it can do, it has no error to
\* hand to its caller.  (A run has finitely many invocations and one that has
\* returned stays so: all of them return if and only if, from some point on,
\* none is in progress.)
C8_ElectionTerminates ==
    <>[](\A n \in Addrs, t \in Slots : tasks[n][t].pc \in {"free", "done"})

\* An invocation has returned although a connect failed and a call got no answer.
C8_Witness ==
    \E n \in Addrs, t \in Slots :
        /\ tasks[n][t].pc = "done"
        /\ Len(tasks[n][t].log) = 2
        /\ \A i \in 1 .. 2 : tasks[n][t].log[i].result = "unreachable"

\* C11: the known leader can regress.  Neither writer of the cell compares
\* identities: a served announcement of a Node of lower identity than the
\* one held replaces it, also when it is lower than the node's own, and so
\* does the write of declare_leader; these two are the only steps by which
\* the identity held by a cell goes down.
C11_LeaderCanRegress ==
    [][\A p \in Addrs :
        /\ \A an \in BagToSet(announces) :
            ( /\ an.to = p
              /\ get_leader(p) # None
              /\ an.leader[1].id < get_leader(p)[1].id
              /\ announce_coordinator(an) )
                => /\ get_leader(p)' = Some(Node(an.leader[1].id, an.leader[1].addr))
                   /\ get_leader(p)'[1].id < get_leader(p)[1].id
        /\ ( /\ get_leader(p) # None
             /\ get_leader(p)' # None
             /\ get_leader(p)'[1].id < get_leader(p)[1].id )
                => \/ AnnouncementServed(p)
                   \/ \E t \in Slots : DeclareWrites(p, t)]_vars

\* A node that declared itself leader, and held its own Node then, now holds
\* the Node of a member of lower identity than its own.
C11_Witness ==
    \E p \in Addrs, t \in Slots :
        /\ tasks[p][t].wrote
        /\ NoHigherPeer(p)
        /\ get_leader(p) # None
        /\ get_leader(p)[1].id < self_node[p].id
        /\ \E m \in Addrs \ {p}, u \in Slots :
            tasks[m][u].announced > 0 /\ get_leader(p) = Some(self_node[m])

\* Invocation t of n has returned after a higher peer replied ok = true.
Deferred(n, t) == tasks[n][t].pc = "done" /\ RepliedOk(n, t)

\* The higher peer whose ok = true made invocation t of n defer.
DeferredTo(n, t) == higher(n)[tasks[n][t].log[Len(tasks[n][t].log)].peer].addr

\* C12: an invocation that a higher peer answered with ok = true returns at
\* once and does nothing any more: it has no step left (no new poll, no
\* timer), it never changes, and no message of it is in flight.  A node
\* whose invocations have all deferred gets its empty cell filled only when
\* an announcement is served on it; if the higher peer never announces and
\* nobody calls start_election again, the node stays without a leader.
C12_DeferIsFinal ==
    [][\A n \in Addrs :
        /\ \A t \in Slots :
            /\ RepliedOk(n, t)' => Deferred(n, t)'
            /\ Deferred(n, t) =>
                /\ tasks'[n][t] = tasks[n][t]
                /\ ~ ENABLED Step(n, t)
                /\ \A m \in net \cup net' : ~ (m.call[1] = n /\ m.call[2] = t)
        /\ ( /\ \A t \in Slots : tasks[n][t].pc # "free" => Deferred(n, t)
             /\ \A t \in Slots : tasks'[n][t] = tasks[n][t]
             /\ get_leader(n) = None
             /\ get_leader(n)' # None ) => AnnouncementServed(n)]_vars

\* A node has deferred to a higher peer and has no leader; the election that
\* the peer spawned has not run (a crash of the peer leaves it there), no
\* announcement is under way and nothing but that peer can take a step.
C12_Witness ==
    \E n \in Addrs, t \in Slots :
        /\ Deferred(n, t)
        /\ get_leader(n) = None
        /\ net = {}
        /\ announces = EmptyBag
        /\ \E u \in Slots : tasks[DeferredTo(n, t)][u].pc = "start"
        /\ \A u \in Slots : tasks[DeferredTo(n, t)][u].pc \in {"free", "start"}
        /\ \A m \in Addrs \ {DeferredTo(n, t)}, u \in Slots : ~ ENABLED Step(m, u)

\* C13: every peer contact has a deadline, the Coordinator announcements of
\* declare_leader included, so that no announcement task stays pending for
\* ever: as a run has finitely many elections, from some point on no
\* announcement task is left.
C13_AnnouncementsBounded == <>[](announces = EmptyBag)

\* C14 as the specification words it: the leader cell oscillates between
\* empty and occupied, an occupied cell becomes empty again.
C14_Oscillates ==
    \A n \in Addrs : (get_leader(n) # None) ~> (get_leader(n) = None)

\* C14, amended: the leader cell is empty at construction, and once it is
\* occupied it stays occupied: its Node may be replaced, but no election
\* outcome and no RPC, a Coordinator without leader included, empties it.
C14_OccupiedForGood ==
    /\ \A n \in Addrs : get_leader(n) = None
    /\ [][\A n \in Addrs : get_leader(n) # None => get_leader(n)' # None]_vars

\* The cell of a node that declared itself has got another Node since.
C14_Witness ==
    \E n \in Addrs, t \in Slots :
        /\ tasks[n][t].wrote
        /\ get_leader(n) # None
        /\ get_leader(n) # Some(self_node[n])

\* C20: an announce_coordinator call whose Coordinator has no leader leaves
\* the leader cell as it was, occupied or empty, starts no election, sends
\* nothing, and is answered without error with alive = true.
C20_AbsentLeaderIgnored ==
    [][\A p \in Addrs :
        ext_announce_coordinator(p, None) =>
            /\ get_leader(p)' = get_leader(p)
            /\ UNCHANGED << leader, tasks, net, announces >>
            /\ ext_resp'[1].status = "ok"
            /\ ext_resp'[1].value = TRUE]_vars

\* A node whose cell was occupied has answered a Coordinator without leader
\* and holds what it held.
C20_Witness ==
    /\ ext_resp # None
    /\ ext_resp[1].rpc = "AnnounceCoordinator"
    /\ ext_resp[1].arg = None
    /\ ext_resp[1].status = "ok"
    /\ ext_resp[1].value = TRUE
    /\ ext_resp[1].before # None
    /\ get_leader(ext_resp[1].to) = ext_resp[1].before

\* The messages of invocation t of n that are in flight.
InFlight(n, t) == {m \in net : m.call[1] = n /\ m.call[2] = t}

\* The k-th peer of greater identity in the peer list of n, counted in the
\* order of the list.
KthHigher(n, k) ==
    peers[n][CHOOSE i \in HigherPositions(n) :
                Cardinality({j \in HigherPositions(n) : j <= i}) = k]

\* C16: an invocation of start_election contacts its higher peers one after
\* another in the order of the peer list, each at most once: the k-th entry
\* of its log is the k-th higher peer, while it connects to or calls the
\* k-th higher peer all the k-1 before have failed, timed out or answered
\* ok = false, at most one message of it is in flight, that one belonging to
\* the call under way, and every step moves it on by at most one peer and
\* never back.
C16_SequentialContact ==
    [][\A n \in Addrs, t \in Slots :
        LET task == tasks'[n][t] IN
        /\ \A k \in 1 .. Len(task.log) : task.log[k].peer = k
        /\ Len(task.log) <= Cardinality(HigherPositions(n))
        /\ task.pc \in {"connect", "call"} =>
            /\ task.idx \in 1 .. Cardinality(HigherPositions(n))
            /\ Len(task.log) = task.idx - 1
            /\ \A k \in 1 .. Len(task.log) :
                task.log[k].result \in {"unreachable", "ok_false"}
        /\ Cardinality(InFlight(n, t)') <= 1
        /\ \A m \in InFlight(n, t)' :
            /\ task.pc = "call"
            /\ m.call[3] = task.idx
            /\ m.type = "Election" => m.to = KthHigher(n, task.idx).addr
        /\ task.pc \notin {"connect", "call"} => InFlight(n, t)' = {}
        /\ tasks[n][t].pc \in {"connect", "call"} =>
            /\ task.idx \in {tasks[n][t].idx, tasks[n][t].idx + 1}
            /\ Len(task.log) \in {Len(tasks[n][t].log), Len(tasks[n][t].log) + 1}
            /\ task.idx = tasks[n][t].idx + 1 =>
                /\ task.pc = "connect"
                /\ Len(task.log) = tasks[n][t].idx]_vars

\* An invocation is calling its second higher peer after the first one has
\* answered ok = false.
C16_Witness ==
    \E n \in Addrs, t \in Slots :
        /\ tasks[n][t].pc = "call"
        /\ tasks[n][t].idx = 2
        /\ tasks[n][t].log = << [peer |-> 1, result |-> "ok_false"] >>
        /\ \E m \in InFlight(n, t) : m.to = KthHigher(n, 2).addr

\* How many announcement tasks member m has spawned towards the address a.
Dispatched(m, a) ==
    Cardinality({t \in Slots : tasks[m][t].announced > 0}) * PeerEntries(m, a)

\* Node n has received no announcement: whatever the other members have
\* dispatched towards it is still under way.
NothingReceived(n) ==
    \A m \in Addrs \ {n} :
        CopiesIn(OwnAnnouncement(m, n), announces) = Dispatched(m, n)

\* C19: in the cluster by itself, where declare_leader is the only sender of
\* Coordinator messages, the leader cell of a node is empty or holds the Node
\* of a member that has executed declare_leader and wrote its own cell; the
\* Node of another member is held only once that member has dispatched its
\* announcements.  A node that has not declared and has received no
\* announcement has an empty cell, however many of its elections deferred.
C19_CellHoldsDeclarer ==
    \A n \in Addrs :
        /\ \/ get_leader(n) = None
           \/ \E m \in Addrs, t \in Slots :
                /\ tasks[m][t].wrote
                /\ get_leader(n) = Some(self_node[m])
                /\ m # n => \E u \in Slots : tasks[m][u].announced > 0
        /\ ( /\ \A t \in Slots : ~ tasks[n][t].wrote
             /\ NothingReceived(n) ) => get_leader(n) = None

\* A node that never declared, and one election of which deferred, holds
\* the Node of the member that declared itself.
C19_Witness ==
    \E n \in Addrs, t \in Slots, m \in Addrs, u \in Slots :
        /\ m # n
        /\ \A v \in Slots : ~ tasks[n][v].wrote
        /\ Deferred(n, t)
        /\ tasks[m][u].wrote
        /\ get_leader(n) = Some(self_node[m])

\* The member of greatest identity.
Highest == CHOOSE n \in Addrs : \A m \in Addrs : self_node[m].id <= self_node[n].id

\* C17: in a fault-free cluster only the node of greatest identity executes
\* declare_leader: no invocation of another node gets to declare_leader,
\* writes its own Node or dispatches an announcement, every announcement
\* under way carries the Node of the highest node, and no cell holds
\* another Node.
C17_OnlyHighestDeclares ==
    /\ \A n \in Addrs \ {Highest}, t \in Slots :
        /\ tasks[n][t].pc \notin {"declare", "announce"}
        /\ ~ tasks[n][t].wrote
        /\ tasks[n][t].announced = 0
        /\ tasks[n][t].pc = "done" => Deferred(n, t)
    /\ \A an \in BagToSet(announces) : an.leader = Some(self_node[Highest])
    /\ \A n \in Addrs : get_leader(n) \in {None, Some(self_node[Highest])}

\* Elections of two lower nodes have deferred and the highest node has
\* declared itself.
C17_Witness ==
    /\ \E n, m \in Addrs \ {Highest}, t, u \in Slots :
        n # m /\ Deferred(n, t) /\ Deferred(m, u)
    /\ \E t \in Slots : tasks[Highest][t].announced > 0

\* An election has been called or spawned somewhere.
Started == \E n \in Addrs, t \in Slots : tasks[n][t].pc # "free"

\* Every node knows the node of greatest identity as the leader.
Converged == \A n \in Addrs : get_leader(n) = Some(self_node[Highest])

\* C18: in a fault-free cluster where every spawned task is eventually
\* scheduled, once start_election has been triggered somewhere the cluster
\* converges: from some point on the leader cell of every node holds the
\* Node of the highest node, and keeps it through all further elections.
\* (A run that has started stays started, so this is: from some point on,
\* the run has not started or every cell holds the highest Node.)
C18_Converges == <>[](Started => Converged)

\* The cluster has converged and the highest node has declared twice.
C18_Witness ==
    /\ Converged
    /\ \E t, u \in Slots :
        t # u /\ tasks[Highest][t].pc = "done" /\ tasks[Highest][u].pc = "done"
    /\ announces = EmptyBag

\* The guards that invocation t of node n holds.
GuardsOf(n, t) == {g \in lock[n] : g.by = << "declare_leader", t >>}

\* C15: the leader cell is reached only through the RwLock, by one read or
\* one full replacement at a time.  A guard of an invocation is held only
\* inside its store statement, so an invocation that waits on the network
\* (connect or call) holds no guard; a write guard excludes every other
\* guard; the cell changes only in a step of the holder of the write guard,
\* which stores a complete Node and drops the guard in that very step; and
\* while get_leader holds its read guard the cell is empty or holds a
\* complete Node that a writer stored, and does not change.
C15_LockDiscipline ==
    [][\A n \in Addrs :
        /\ \A t \in Slots :
            /\ GuardsOf(n, t)' # {} => tasks'[n][t].pc = "store"
            /\ tasks'[n][t].pc \in {"connect", "call"} => GuardsOf(n, t)' = {}
        /\ \A g \in lock'[n] : g.mode = "write" => lock'[n] = {g}
        /\ get_leader(n)' # get_leader(n) =>
            /\ \E g \in lock[n] : g.mode = "write" /\ lock[n] = {g}
            /\ lock'[n] = {}
            /\ get_leader(n)' \in {Some(self_node[m]) : m \in Addrs}
        /\ ReadGuard \in lock[n] =>
            /\ get_leader(n)' = get_leader(n)
            /\ get_leader(n) \in {None} \cup {Some(self_node[m]) : m \in Addrs}
            /\ get_leader(n) # None =>
                \E m \in Addrs, t \in Slots :
                    tasks[m][t].wrote /\ get_leader(n) = Some(self_node[m])]_vars

\* One invocation of a node waits for the answer to its Election call while
\* another one holds the write guard, alone, and get_leader has to wait.
C15_Witness ==
    \E n \in Addrs, t, u \in Slots :
        /\ tasks[n][t].pc = "call"
        /\ tasks[n][u].pc = "store"
        /\ lock[n] = GuardsOf(n, u)
        /\ lock[n] # {}
        /\ ~ ENABLED get_leader_lock(n)

====
